---- MODULE Spec2Model ----
(***************************************************************************)
(* Model of sanbaiqian_coverage.py: the Han classifier, the inventory      *)
(* loader, the coverage analyzer, the per-line analyzer, the report        *)
(* builder and the command-line entry point main.                          *)
(*                                                                         *)
(* Characters are their codepoints (ord), strings are sequences of         *)
(* codepoints.  A float percentage known / total * 100.0 is kept as the    *)
(* exact fraction <<numerator, denominator>>.  A dict is the sequence of   *)
(* its items in insertion order.  A report line is a record naming the     *)
(* f-string that renders it and the values that f-string interpolates.     *)
(***************************************************************************)
EXTENDS Integers, Sequences, FiniteSets, TLC

VARIABLES
    HAN_RANGES,   \* the module-level range table is_han scans
    text,         \* the input text handed to the analyzers
    han_only,     \* the han_only option
    result,       \* what the last call of an analyzer returned
    pc,           \* position of main
    args,         \* the parsed command line of main
    inventories,  \* the dict load_inventories is filling
    idx,          \* position of load_inventories in its paths
    label,        \* local of load_inventories
    base,         \* local of load_inventories
    n,            \* local of load_inventories
    stdout,       \* what main has printed
    outfile,      \* what main has saved to args.output
    files         \* the file system and standard input main runs on

coreVars == <<text, han_only, result>>
mainVars == <<pc, args, inventories, idx, label, base, n, stdout, outfile,
              files, HAN_RANGES>>
vars == <<text, han_only, result, pc, args, inventories, idx, label, base, n,
          stdout, outfile, files, HAN_RANGES>>

(***************************************************************************)
(* Bounds of the model                                                     *)
(***************************************************************************)
MaxTextLen == 2
MaxInv == 2
MaxFiles == 3

(* The characters texts are made of: two Han characters, line feed,        *)
(* carriage return and the letter a.                                       *)
Alphabet == {19968, 20108, 10, 13, 97}

(* The values of top_unknown: one that cuts the tables, and the default.   *)
TopChoices == {1, 15}

None == [op |-> "None"]

Min(a, b) == IF a <= b THEN a ELSE b

(***************************************************************************)
(* Unicode range helpers                                                   *)
(***************************************************************************)
HanRangesLiteral ==
    << <<13312, 19903>>,
       <<19968, 40959>>,
       <<63744, 64255>>,
       <<131072, 173791>>,
       <<173824, 177983>>,
       <<177984, 178207>>,
       <<178208, 183983>>,
       <<183984, 191471>>,
       <<196608, 201551>>,
       <<201552, 205743>>,
       <<191472, 192093>>,
       <<205744, 210041>> >>

is_han(ch) ==
    \E k \in 1..Len(HAN_RANGES) :
        HAN_RANGES[k][1] <= ch /\ ch <= HAN_RANGES[k][2]

(* ch.strip() == "": the characters str.strip() removes                    *)
IsSpace(ch) ==
    \/ ch \in {9, 10, 11, 12, 13, 28, 29, 30, 31, 32, 133, 160, 5760}
    \/ ch \in 8192..8202
    \/ ch \in {8232, 8233, 8239, 8287, 12288}

(* the characters str.splitlines() splits at                               *)
IsLineBoundary(ch) == ch \in {10, 11, 12, 13, 28, 29, 30, 133, 8232, 8233}

HanAlphabet == {ch \in Alphabet : is_han(ch)}
Texts == UNION {[1..k -> Alphabet] : k \in 0..MaxTextLen}
InvSets == SUBSET HanAlphabet

(***************************************************************************)
(* Core logic                                                              *)
(***************************************************************************)
load_inventory(data) == {data[k] : k \in {j \in 1..Len(data) : is_han(data[j])}}

(* iter_text_chars without the whitespace test of line 69                  *)
iter_text_chars_keep_space(t, ho) ==
    SelectSeq(t, LAMBDA ch : ~(ho /\ ~is_han(ch)))

iter_text_chars(t, ho) ==
    SelectSeq(t, LAMBDA ch : ~(ho /\ ~is_han(ch)) /\ ~IsSpace(ch))

Known(chars, inventory) == SelectSeq(chars, LAMBDA ch : ch \in inventory)

(* unknown restricted to Han characters                                    *)
UnknownHanOnly(chars, inventory) ==
    SelectSeq(chars, LAMBDA ch : ch \notin inventory /\ is_han(ch))

Unknown(chars, inventory) == SelectSeq(chars, LAMBDA ch : ch \notin inventory)

(* collections.Counter(list): the items <<ch, count>> in first-seen order  *)
RECURSIVE Counter(_)
Counter(s) ==
    IF s = <<>> THEN <<>>
    ELSE LET prev == Counter(SubSeq(s, 1, Len(s) - 1))
             ch == s[Len(s)]
         IN  IF \E k \in 1..Len(prev) : prev[k][1] = ch
             THEN [k \in 1..Len(prev) |->
                      IF prev[k][1] = ch THEN <<ch, prev[k][2] + 1>>
                      ELSE prev[k]]
             ELSE Append(prev, <<ch, 1>>)

(* the percentage with 0.0 for an empty character sequence                 *)
CoverageZeroOnEmpty(known_count, total) ==
    IF total # 0 THEN <<known_count * 100, total>> ELSE <<0, 1>>

Coverage(known_count, total) ==
    IF total # 0 THEN <<known_count * 100, total>> ELSE <<100, 1>>

(* the dict coverage_report returns, from its locals total, known and    *)
(* unknown                                                                 *)
ReportOf(total, known, unknown) ==
    [total_chars |-> total,
     known_chars |-> Len(known),
     unknown_chars |-> Len(unknown),
     coverage_pct |-> Coverage(Len(known), total),
     known_freq |-> Counter(known),
     unknown_freq |-> Counter(unknown)]

PartitionReport(chars, inventory) ==
    ReportOf(Len(chars), Known(chars, inventory), Unknown(chars, inventory))

coverage_report(t, inventory, ho) ==
    PartitionReport(iter_text_chars(t, ho), inventory)

(* text.splitlines(): "\r\n" is one terminator, a trailing fragment is a   *)
(* line, the empty text has no line                                        *)
RECURSIVE SplitFrom(_, _, _, _)
SplitFrom(t, i, cur, acc) ==
    IF i > Len(t)
    THEN IF cur # <<>> THEN Append(acc, cur) ELSE acc
    ELSE IF IsLineBoundary(t[i])
         THEN LET step == IF t[i] = 13 /\ i < Len(t) /\ t[i + 1] = 10
                          THEN 2 ELSE 1
              IN  SplitFrom(t, i + step, <<>>, Append(acc, cur))
         ELSE SplitFrom(t, i + 1, Append(cur, t[i]), acc)

splitlines(t) == SplitFrom(t, 1, <<>>, <<>>)

(* line.rstrip("\n")                                                       *)
RECURSIVE rstrip_lf(_)
rstrip_lf(line) ==
    IF line # <<>> /\ line[Len(line)] = 10
    THEN rstrip_lf(SubSeq(line, 1, Len(line) - 1))
    ELSE line

(* one tuple of results: (i, total, known, pct, line.rstrip("\n"))         *)
PerLineRecord(i, total, known, stripped) ==
    IF total = 0
    THEN [line_no |-> i, total |-> 0, known |-> 0, pct |-> <<100, 1>>,
          line |-> stripped]
    ELSE [line_no |-> i, total |-> total, known |-> known,
          pct |-> <<known * 100, total>>, line |-> stripped]

PerLineOfChars(i, line, chars, inventory) ==
    PerLineRecord(i, Len(chars), Len(Known(chars, inventory)),
                  rstrip_lf(line))

PerLineRows(ls, inventory, ho) ==
    [i \in 1..Len(ls) |->
        PerLineOfChars(i, ls[i], iter_text_chars(ls[i], ho), inventory)]

per_line_breakdown(t, inventory, ho) ==
    PerLineRows(splitlines(t), inventory, ho)

(***************************************************************************)
(* Pretty printing helpers and the report builder                          *)
(***************************************************************************)
(* list.sort / sorted: stable, Lt is the strict order of the sort key      *)
(* the strict order of the three sort keys of the module                   *)
KeyLess(key, a, b) ==
    CASE key = "count_desc" -> a[2] > b[2]
      [] key = "count_desc_then_ord" ->
             a[2] > b[2] \/ (a[2] = b[2] /\ a[1] < b[1])
      [] key = "count_then_ord" ->
             a[2] < b[2] \/ (a[2] = b[2] /\ a[1] < b[1])

Rank(items, i, key) ==
    1 + Cardinality({j \in 1..Len(items) :
            \/ KeyLess(key, items[j], items[i])
            \/ ~KeyLess(key, items[i], items[j]) /\ j < i})

SortedBy(items, key) ==
    [r \in 1..Len(items) |->
        items[CHOOSE i \in 1..Len(items) : Rank(items, i, key) = r]]

(* Counter.most_common(k): heapq.nlargest on the count, equal counts stay  *)
(* in the order of the Counter's items                                     *)
most_common(freq, k) ==
    IF k <= 0 THEN <<>>
    ELSE SubSeq(SortedBy(freq, "count_desc"), 1, Min(k, Len(freq)))

(* unique_oov.sort(key=lambda ch: (-rep["unknown_freq"][ch], ord(ch)))     *)
FirstOfEach(items) == [k \in 1..Len(items) |-> items[k][1]]

unique_oov(rep) ==
    FirstOfEach(SortedBy(rep.unknown_freq, "count_desc_then_ord"))

(* sorted(items, key=lambda kv: (kv[1], ord(kv[0])))[:top_n]               *)
bottom(rep, top_n) ==
    SubSeq(SortedBy(rep.unknown_freq, "count_then_ord"),
           1, Min(top_n, Len(rep.unknown_freq)))

TableRows(kind, items) ==
    [k \in 1..Len(items) |->
        [kind |-> kind, ch |-> items[k][1], cnt |-> items[k][2]]]

print_oov_frequency(rep, top_n) ==
    IF rep.unknown_chars = 0 THEN <<>>
    ELSE <<[kind |-> "top_header", top |-> top_n]>>
         \o TableRows("top_row", most_common(rep.unknown_freq, top_n))
         \o <<[kind |-> "bottom_header", top |-> top_n]>>
         \o TableRows("bottom_row", bottom(rep, top_n))

StatsLines(rep) ==
    <<[kind |-> "total", value |-> rep.total_chars],
      [kind |-> "known", value |-> rep.known_chars],
      [kind |-> "unknown", value |-> rep.unknown_chars],
      [kind |-> "coverage", value |-> rep.coverage_pct]>>

OovLines(rep, top_unknown, none_kind) ==
    IF rep.unknown_chars # 0
    THEN <<[kind |-> "oov_list_header"],
           [kind |-> "oov_list", chars |-> unique_oov(rep)],
           [kind |-> "top_header", top |-> top_unknown]>>
         \o TableRows("top_row", most_common(rep.unknown_freq, top_unknown))
         \o <<[kind |-> "bottom_header", top |-> top_unknown]>>
         \o TableRows("bottom_row", bottom(rep, top_unknown))
    ELSE <<[kind |-> none_kind]>>

(* dict helpers: a dict is the sequence of its items in insertion order    *)
Keys(d) == {d[k].label : k \in 1..Len(d)}
Lookup(d, key) == d[CHOOSE k \in 1..Len(d) : d[k].label = key].chars
SetItem(d, key, value) ==
    IF key \in Keys(d)
    THEN [k \in 1..Len(d) |->
             IF d[k].label = key THEN [label |-> key, chars |-> value]
             ELSE d[k]]
    ELSE Append(d, [label |-> key, chars |-> value])

Reports(t, invs, ho) ==
    [k \in 1..Len(invs) |->
        [label |-> invs[k].label,
         rep |-> coverage_report(t, invs[k].chars, ho)]]

(* the union test without len(inventories) > 1                             *)
UnionWantedAnyCount(invs, union) == union

UnionWanted(invs, union) == union /\ Len(invs) > 1

(* the characters common to all inventories                                *)
IntersectionSet(invs) ==
    {ch \in UNION {invs[k].chars : k \in 1..Len(invs)} :
        \A k \in 1..Len(invs) : ch \in invs[k].chars}

UnionSet(invs) == UNION {invs[k].chars : k \in 1..Len(invs)}

UnionReport(t, invs, union, ho) ==
    IF UnionWanted(invs, union)
    THEN coverage_report(t, UnionSet(invs), ho)
    ELSE None

RECURSIVE SumLen(_, _)
SumLen(invs, k) ==
    IF k = 0 THEN 0 ELSE Cardinality(invs[k].chars) + SumLen(invs, k - 1)

HeaderLines(invs, union_report) ==
    <<[kind |-> "inventories_loaded"]>>
    \o [k \in 1..Len(invs) |->
           [kind |-> "inventory", label |-> invs[k].label,
            size |-> Cardinality(invs[k].chars)]]
    \o (IF union_report # None
        THEN <<[kind |-> "union_sizes", raw |-> SumLen(invs, Len(invs)),
                unique |-> Cardinality(UnionSet(invs))]>>
        ELSE <<>>)

PerLineTable(rows) ==
    <<[kind |-> "per_line_header"]>>
    \o [k \in 1..Len(rows) |->
           [kind |-> "per_line_row", line_no |-> rows[k].line_no,
            known |-> rows[k].known, total |-> rows[k].total,
            pct |-> rows[k].pct, line |-> rows[k].line]]

PerLineLines(t, inventory, ho) ==
    PerLineTable(per_line_breakdown(t, inventory, ho))

InventoryBlock(t, invs, entry, top_unknown, ho, per_line) ==
    <<[kind |-> "results", label |-> entry.label]>>
    \o StatsLines(entry.rep)
    \o OovLines(entry.rep, top_unknown, "no_unknown")
    \o (IF per_line
        THEN PerLineLines(t, Lookup(invs, entry.label), ho)
        ELSE <<>>)

RECURSIVE InventoryBlocks(_, _, _, _, _, _, _)
InventoryBlocks(t, invs, reports, k, top_unknown, ho, per_line) ==
    IF k = 0 THEN <<>>
    ELSE InventoryBlocks(t, invs, reports, k - 1, top_unknown, ho, per_line)
         \o InventoryBlock(t, invs, reports[k], top_unknown, ho, per_line)

UnionBlock(union_report, top_unknown) ==
    IF union_report # None
    THEN <<[kind |-> "union_results"]>>
         \o StatsLines(union_report)
         \o OovLines(union_report, top_unknown, "no_unknown_union")
    ELSE <<>>

(* the locals reports and union_report of build_report_text, and the     *)
(* list lines it joins into the returned string                            *)
ReportLines(t, invs, reports, union_report, top_unknown, ho, per_line) ==
    [reports |-> reports,
     union_report |-> union_report,
     lines |-> HeaderLines(invs, union_report)
               \o InventoryBlocks(t, invs, reports, Len(reports),
                                  top_unknown, ho, per_line)
               \o UnionBlock(union_report, top_unknown)]

BuildReport(t, invs, union, top_unknown, ho, per_line) ==
    ReportLines(t, invs, Reports(t, invs, ho),
                UnionReport(t, invs, union, ho), top_unknown, ho, per_line)

build_report_text(t, invs, union, top_unknown, ho, per_line) ==
    BuildReport(t, invs, union, top_unknown, ho, per_line).lines

InvLabels == <<"a", "a-2", "b", "c">>
InvMaps ==
    UNION {{[i \in 1..k |-> [label |-> InvLabels[i], chars |-> f[i]]] :
               f \in [1..k -> InvSets]} : k \in 1..MaxInv}

(***************************************************************************)
(* Specification of the analyzers: one call on one input per behaviour     *)
(***************************************************************************)
IdleMain ==
    /\ pc = "idle"
    /\ result = None
    /\ args = None
    /\ inventories = <<>>
    /\ idx = 0
    /\ label = ""
    /\ base = ""
    /\ n = 0
    /\ stdout = <<>>
    /\ outfile = None
    /\ files = None
    /\ HAN_RANGES = HanRangesLiteral

Init ==
    /\ text \in Texts
    /\ han_only \in BOOLEAN
    /\ result = None
    /\ IdleMain

CallCoverageReport ==
    /\ pc = "idle"
    /\ result = None
    /\ \E inv \in InvSets :
          result' = [op |-> "coverage_report", inventory |-> inv,
                     rep |-> coverage_report(text, inv, han_only)]
    /\ UNCHANGED <<text, han_only>>
    /\ UNCHANGED mainVars

CallPerLineBreakdown ==
    /\ pc = "idle"
    /\ result = None
    /\ \E inv \in InvSets :
          result' = [op |-> "per_line_breakdown", inventory |-> inv,
                     rows |-> per_line_breakdown(text, inv, han_only)]
    /\ UNCHANGED <<text, han_only>>
    /\ UNCHANGED mainVars

CallPrintOovFrequency ==
    /\ pc = "idle"
    /\ result = None
    /\ \E inv \in InvSets, top_n \in TopChoices :
          LET rep == coverage_report(text, inv, han_only)
          IN  result' = [op |-> "print_oov_frequency", inventory |-> inv,
                         top_n |-> top_n, rep |-> rep,
                         out |-> print_oov_frequency(rep, top_n)]
    /\ UNCHANGED <<text, han_only>>
    /\ UNCHANGED mainVars

CallBuildReportText ==
    /\ pc = "idle"
    /\ result = None
    /\ \E invs \in InvMaps, union \in BOOLEAN, per_line \in BOOLEAN,
          top_unknown \in TopChoices :
          \E built \in {BuildReport(text, invs, union, top_unknown, han_only,
                                    per_line)} :
              result' = [op |-> "build_report_text", inventories |-> invs,
                         union |-> union, per_line |-> per_line,
                         top_unknown |-> top_unknown,
                         reports |-> built.reports,
                         union_report |-> built.union_report,
                         lines |-> built.lines]
    /\ UNCHANGED <<text, han_only>>
    /\ UNCHANGED mainVars

Next ==
    \/ CallCoverageReport
    \/ CallPerLineBreakdown
    \/ CallPrintOovFrequency
    \/ CallBuildReportText

Spec == Init /\ [][Next]_vars

(***************************************************************************)
(* The command line: main, with load_inventories stepped through its loop  *)
(***************************************************************************)
(* A path is its parent directory, the stem of its name and its suffix.    *)
PathA == [parent |-> ".", stem |-> "a", suffix |-> ".txt"]
PathSubA == [parent |-> "sub", stem |-> "a", suffix |-> ".txt"]
PathA2 == [parent |-> ".", stem |-> "a-2", suffix |-> ".txt"]
PathInput == [parent |-> ".", stem |-> "my_text", suffix |-> ".txt"]
PathOutput == [parent |-> ".", stem |-> "coverage_report", suffix |-> ".txt"]
InvPaths == {PathA, PathSubA, PathA2}

(* path.read_text(): the contents of the files of the model                *)
read_text(p) ==
    CASE p = PathA -> <<19968, 97, 10>>
      [] p = PathSubA -> <<20108, 32, 20108>>
      [] p = PathA2 -> <<19968, 20108>>
      [] p = PathInput -> <<20108, 13, 19968, 97>>

str(p) == p.parent \o "/" \o p.stem \o p.suffix

(* p.stem or str(p)                                                        *)
StemOrStr(p) == IF p.stem # "" THEN p.stem ELSE str(p)

(* the loop test of line 58 never finding the label                        *)
LabelNeverUsed(lbl, d) == FALSE

LabelUsed(lbl, d) == lbl \in Keys(d)

(* f"{base}-{n}"                                                           *)
Suffixed(b, k) == b \o "-" \o ToString(k)

(* the option sets main is run with                                        *)
MainOptions ==
    {[all_chars |-> FALSE, per_line |-> FALSE, top_unknown |-> 15,
      union |-> FALSE],
     [all_chars |-> TRUE, per_line |-> TRUE, top_unknown |-> 1,
      union |-> TRUE]}

MainArgs ==
    {[inventory |-> inv, input |-> inp, output |-> out,
      all_chars |-> o.all_chars, per_line |-> o.per_line,
      top_unknown |-> o.top_unknown, union |-> o.union] :
        inv \in UNION {[1..k -> InvPaths] : k \in 1..MaxFiles},
        inp \in {None, PathInput},
        out \in {None, PathOutput},
        o \in MainOptions}

InitMain ==
    /\ HAN_RANGES = HanRangesLiteral
    /\ args \in MainArgs
    /\ files \in [exists : SUBSET (InvPaths \cup {PathInput}),
                  stdin : {<<>>, <<19968, 10, 20108>>},
                  writable : BOOLEAN]
    /\ (args.input = None => PathInput \in files.exists)
    /\ (args.input # None => files.stdin = <<>>)
    /\ (args.output = None => files.writable)
    /\ pc = "validate"
    /\ text = <<>>
    /\ han_only = ~args.all_chars
    /\ result = None
    /\ inventories = <<>>
    /\ idx = 0
    /\ label = ""
    /\ base = ""
    /\ n = 0
    /\ stdout = <<>>
    /\ outfile = None

Missing == {k \in 1..Len(args.inventory) : args.inventory[k] \notin files.exists}

(* p.error("Inventory file(s) not found: ..."): exit with status 2         *)
InventoryNotFound ==
    /\ pc = "validate"
    /\ Missing # {}
    /\ pc' = "error"
    /\ UNCHANGED <<text, han_only, result, args, inventories, idx, label,
                   base, n, stdout, outfile, files, HAN_RANGES>>

ValidateInventories ==
    /\ pc = "validate"
    /\ Missing = {}
    /\ pc' = "load"
    /\ idx' = 1
    /\ inventories' = <<>>
    /\ UNCHANGED <<text, han_only, result, args, label, base, n, stdout,
                   outfile, files, HAN_RANGES>>

LoadBegin ==
    /\ pc = "load"
    /\ idx <= Len(args.inventory)
    /\ label' = StemOrStr(args.inventory[idx])
    /\ base' = label'
    /\ n' = 2
    /\ pc' = "load_while"
    /\ UNCHANGED <<text, han_only, result, args, inventories, idx, stdout,
                   outfile, files, HAN_RANGES>>

LoadWhile ==
    /\ pc = "load_while"
    /\ LabelUsed(label, inventories)
    /\ label' = Suffixed(base, n)
    /\ n' = n + 1
    /\ UNCHANGED <<text, han_only, result, pc, args, inventories, idx, base,
                   stdout, outfile, files, HAN_RANGES>>

LoadStore ==
    /\ pc = "load_while"
    /\ ~LabelUsed(label, inventories)
    /\ inventories' = SetItem(inventories, label,
                              load_inventory(read_text(args.inventory[idx])))
    /\ idx' = idx + 1
    /\ pc' = "load"
    /\ UNCHANGED <<text, han_only, result, args, label, base, n, stdout,
                   outfile, files, HAN_RANGES>>

LoadReturn ==
    /\ pc = "load"
    /\ idx > Len(args.inventory)
    /\ pc' = "read_input"
    /\ UNCHANGED <<text, han_only, result, args, inventories, idx, label,
                   base, n, stdout, outfile, files, HAN_RANGES>>

ReadStdin ==
    /\ pc = "read_input"
    /\ args.input = None
    /\ text' = files.stdin
    /\ pc' = "compute"
    /\ UNCHANGED <<han_only, result, args, inventories, idx, label, base, n,
                   stdout, outfile, files, HAN_RANGES>>

(* p.error(f"Input file not found: {args.input}"): exit with status 2      *)
InputNotFound ==
    /\ pc = "read_input"
    /\ args.input # None
    /\ args.input \notin files.exists
    /\ pc' = "error"
    /\ UNCHANGED <<text, han_only, result, args, inventories, idx, label,
                   base, n, stdout, outfile, files, HAN_RANGES>>

ReadInput ==
    /\ pc = "read_input"
    /\ args.input # None
    /\ args.input \in files.exists
    /\ text' = read_text(args.input)
    /\ pc' = "compute"
    /\ UNCHANGED <<han_only, result, args, inventories, idx, label, base, n,
                   stdout, outfile, files, HAN_RANGES>>

ComputeReports ==
    /\ pc = "compute"
    /\ result' = [op |-> "main",
                  reports |-> Reports(text, inventories, ~args.all_chars),
                  union_report |-> UnionReport(text, inventories, args.union,
                                               ~args.all_chars)]
    /\ pc' = "output"
    /\ UNCHANGED <<text, han_only, args, inventories, idx, label, base, n,
                   stdout, outfile, files, HAN_RANGES>>

Consolidated ==
    build_report_text(text, inventories, args.union, args.top_unknown,
                      ~args.all_chars, args.per_line)

PrintReport ==
    /\ pc = "output"
    /\ stdout' = Append(stdout, [kind |-> "report", lines |-> Consolidated])
    /\ pc' = "save"
    /\ UNCHANGED <<text, han_only, result, args, inventories, idx, label,
                   base, n, outfile, files, HAN_RANGES>>

SaveSkipped ==
    /\ pc = "save"
    /\ args.output = None
    /\ pc' = "done"
    /\ UNCHANGED <<text, han_only, result, args, inventories, idx, label,
                   base, n, stdout, outfile, files, HAN_RANGES>>

SaveReport ==
    /\ pc = "save"
    /\ args.output # None
    /\ files.writable
    /\ outfile' = Consolidated
    /\ stdout' = Append(stdout, [kind |-> "saved", path |-> args.output])
    /\ pc' = "done"
    /\ UNCHANGED <<text, han_only, result, args, inventories, idx, label,
                   base, n, files, HAN_RANGES>>

SaveFailed ==
    /\ pc = "save"
    /\ args.output # None
    /\ ~files.writable
    /\ stdout' = Append(stdout, [kind |-> "save_error", path |-> args.output])
    /\ pc' = "done"
    /\ UNCHANGED <<text, han_only, result, args, inventories, idx, label,
                   base, n, outfile, files, HAN_RANGES>>

NextMain ==
    \/ InventoryNotFound
    \/ ValidateInventories
    \/ LoadBegin
    \/ LoadWhile
    \/ LoadStore
    \/ LoadReturn
    \/ ReadStdin
    \/ InputNotFound
    \/ ReadInput
    \/ ComputeReports
    \/ PrintReport
    \/ SaveSkipped
    \/ SaveReport
    \/ SaveFailed

SpecMain == InitMain /\ [][NextMain]_vars

(***************************************************************************)
(* Properties                                                              *)
(***************************************************************************)
RECURSIVE SumTotal(_, _)
SumTotal(rows, k) ==
    IF k = 0 THEN 0 ELSE rows[k].total + SumTotal(rows, k - 1)

RECURSIVE SumKnown(_, _)
SumKnown(rows, k) ==
    IF k = 0 THEN 0 ELSE rows[k].known + SumKnown(rows, k - 1)

(* the counted characters of the text: Han when han_only, never whitespace *)
CountedPositions ==
    {i \in 1..Len(text) : (han_only => is_han(text[i])) /\ ~IsSpace(text[i])}

ReportsOfResult ==
    IF result.op \in {"coverage_report", "print_oov_frequency"}
    THEN {result.rep}
    ELSE IF result.op = "build_report_text"
    THEN {result.reports[k].rep : k \in 1..Len(result.reports)}
         \cup ({result.union_report} \ {None})
    ELSE {}

(* C1: in every report coverage_report returns, known_chars plus            *)
(* unknown_chars equals total_chars, the number of counted characters of   *)
(* the text.                                                               *)
C1_KnownPlusUnknownIsTotal ==
    \A rep \in ReportsOfResult :
        /\ rep.known_chars + rep.unknown_chars = rep.total_chars
        /\ rep.total_chars = Cardinality(CountedPositions)

C1_Witness ==
    /\ result.op = "coverage_report"
    /\ result.rep.known_chars > 0
    /\ result.rep.unknown_chars > 0
    /\ ~han_only

(* the ranking of section 4.3: descending frequency, then ascending        *)
(* codepoint, cut to the first N                                           *)
RankedTop(freq, N) ==
    TableRows("top_row",
              SubSeq(SortedBy(freq, "count_desc_then_ord"),
                     1, Min(N, Len(freq))))

TopRowsOf(lines) == SelectSeq(lines, LAMBDA l : l.kind = "top_row")

RECURSIVE RankedTopOfAll(_, _, _)
RankedTopOfAll(reps, k, N) ==
    IF k = 0 THEN <<>>
    ELSE RankedTopOfAll(reps, k - 1, N)
         \o RankedTop(reps[k].unknown_freq, N)

ReportSeqOfResult ==
    [k \in 1..Len(result.reports) |-> result.reports[k].rep]
    \o (IF result.union_report # None THEN <<result.union_report>> ELSE <<>>)

(* C2: the Top N table of every results block, and of print_oov_frequency, *)
(* lists exactly the first N unique unknown characters in the order of     *)
(* descending frequency with ties broken by ascending codepoint.           *)
C2_TopTableRankedByCodepoint ==
    /\ result.op = "print_oov_frequency" =>
          TopRowsOf(result.out) = RankedTop(result.rep.unknown_freq,
                                            result.top_n)
    /\ result.op = "build_report_text" =>
          TopRowsOf(result.lines) =
              RankedTopOfAll(ReportSeqOfResult, Len(ReportSeqOfResult),
                             result.top_unknown)

(* lines split at line feed only                                           *)
RECURSIVE SplitAtLineFeed(_, _, _, _)
SplitAtLineFeed(t, i, cur, acc) ==
    IF i > Len(t)
    THEN IF cur # <<>> THEN Append(acc, cur) ELSE acc
    ELSE IF t[i] = 10
         THEN SplitAtLineFeed(t, i + 1, <<>>, Append(acc, cur))
         ELSE SplitAtLineFeed(t, i + 1, Append(cur, t[i]), acc)

(* C3: per_line_breakdown returns one record per line of the text split at *)
(* line feed only, in source order, numbered from 1, each with the text of *)
(* its line without the terminator.                                        *)
C3_OneRecordPerLineFeedLine ==
    result.op = "per_line_breakdown" =>
        LET ls == SplitAtLineFeed(text, 1, <<>>, <<>>)
        IN  /\ Len(result.rows) = Len(ls)
            /\ \A i \in 1..Len(result.rows) :
                  /\ result.rows[i].line_no = i
                  /\ i <= Len(ls) => result.rows[i].line = ls[i]

(* C4: HAN_RANGES is a list of inclusive pairs with start <= end, in       *)
(* ascending order and non-overlapping: the end of each entry is strictly  *)
(* less than the start of the next.                                        *)
C4_HanRangesAscending ==
    /\ \A k \in 1..Len(HAN_RANGES) : HAN_RANGES[k][1] <= HAN_RANGES[k][2]
    /\ \A k \in 1..(Len(HAN_RANGES) - 1) :
          HAN_RANGES[k][2] < HAN_RANGES[k + 1][1]

(* C5: in build_report_text the known count of the union report is at      *)
(* least the known count of every single inventory's report, and all of    *)
(* these reports have the same total_chars.                                *)
C5_UnionMonotone ==
    (result.op = "build_report_text" /\ result.union_report # None) =>
        \A k \in 1..Len(result.reports) :
            /\ result.union_report.known_chars
                   >= result.reports[k].rep.known_chars
            /\ result.union_report.total_chars
                   = result.reports[k].rep.total_chars

C5_Witness ==
    /\ result.op = "build_report_text"
    /\ result.union_report # None
    /\ Len(result.reports) = 2
    /\ result.reports[1].rep.known_chars > 0
    /\ result.reports[2].rep.known_chars > 0
    /\ result.union_report.known_chars
           > result.reports[1].rep.known_chars
    /\ result.union_report.known_chars
           > result.reports[2].rep.known_chars

(* load_inventories has returned                                           *)
Loaded == pc \notin {"validate", "load", "load_while"} /\ idx > 0

LabelsBefore(i) == {inventories[j].label : j \in 1..(i - 1)}

OneEntryPerFileInOrder ==
    /\ Len(inventories) = Len(args.inventory)
    /\ \A i, j \in 1..Len(inventories) :
          i # j => inventories[i].label # inventories[j].label
    /\ \A i \in 1..Len(inventories) :
          i <= Len(args.inventory) =>
              inventories[i].chars
                  = load_inventory(read_text(args.inventory[i]))

SmallestFreeSuffix(i) ==
    \E k \in 2..(i + 1) :
        /\ inventories[i].label = Suffixed(args.inventory[i].stem, k)
        /\ \A m \in 2..(k - 1) :
              Suffixed(args.inventory[i].stem, m) \in LabelsBefore(i)

(* C6 as stated: one entry per file, distinct labels, input order; the     *)
(* first file with a given stem keeps the stem as its label, a later file  *)
(* with that stem gets the smallest unused suffix.                         *)
C6_FirstFileWithStemKeepsStem ==
    Loaded =>
        /\ OneEntryPerFileInOrder
        /\ \A i \in 1..Len(inventories) :
              i <= Len(args.inventory) =>
                  IF \A j \in 1..(i - 1) :
                         args.inventory[j].stem # args.inventory[i].stem
                  THEN inventories[i].label = args.inventory[i].stem
                  ELSE SmallestFreeSuffix(i)

(* C6 amended: one entry per file, distinct labels, input order, each      *)
(* entry holding its own file's characters; a file whose stem is not yet   *)
(* a label of the map keeps the stem as its label, a file whose stem is    *)
(* already a label gets the stem suffixed with the smallest of -2, -3, ... *)
(* that is not yet a label.                                                *)
C6_UnusedStemKeptElseSmallestSuffix ==
    Loaded =>
        /\ OneEntryPerFileInOrder
        /\ \A i \in 1..Len(inventories) :
              i <= Len(args.inventory) =>
                  IF args.inventory[i].stem \notin LabelsBefore(i)
                  THEN inventories[i].label = args.inventory[i].stem
                  ELSE SmallestFreeSuffix(i)

C6_Witness ==
    /\ Loaded
    /\ Len(inventories) = 3
    /\ inventories[1].label = "a"
    /\ inventories[2].label = "a-2"
    /\ inventories[3].label = "a-3"
    /\ args.inventory[2] = PathA2

PctRule(pct, known, total) ==
    IF total = 0
    THEN pct[1] = 100 * pct[2] /\ pct[2] > 0
    ELSE /\ pct[2] > 0
         /\ pct[1] * total = known * 100 * pct[2]
         /\ 0 <= pct[1]
         /\ pct[1] <= 100 * pct[2]

(* C7: coverage_pct is exactly 100 when total_chars is 0, and otherwise    *)
(* equals known_chars / total_chars * 100 and lies between 0 and 100; the  *)
(* percentage of every per-line record follows the same rule.              *)
C7_PercentageRule ==
    /\ \A rep \in ReportsOfResult :
          PctRule(rep.coverage_pct, rep.known_chars, rep.total_chars)
    /\ result.op = "per_line_breakdown" =>
          \A i \in 1..Len(result.rows) :
              PctRule(result.rows[i].pct, result.rows[i].known,
                      result.rows[i].total)

C7_Witness ==
    /\ result.op = "coverage_report"
    /\ text # <<>>
    /\ result.rep.total_chars = 0
    /\ result.rep.coverage_pct = <<100, 1>>

(* C8: when main stops on a missing inventory or input file, no inventory  *)
(* has been loaded, no coverage has been computed and nothing has been     *)
(* printed or saved.                                                       *)
C8_MissingFileDetectedBeforeCore ==
    pc = "error" =>
        /\ inventories = <<>>
        /\ result = None
        /\ stdout = <<>>
        /\ outfile = None

SectionMarkers(lines) ==
    SelectSeq(lines, LAMBDA l :
        l.kind \in {"inventories_loaded", "results", "union_results"})

KindCount(lines, kind) == Cardinality({p \in 1..Len(lines) : lines[p].kind = kind})

(* C9: the report starts with the Inventories Loaded header, then has one  *)
(* results block per inventory in insertion order, then the union block;   *)
(* the union block and the union header line are there exactly when union  *)
(* is requested with at least 2 inventories; the per-line table is in      *)
(* every per-inventory block when per_line is requested, and never after   *)
(* the union block's header.                                               *)
C9_SectionsInFixedOrder ==
    result.op = "build_report_text" =>
        LET lines == result.lines
            invs == result.inventories
            with_union == result.union /\ Len(invs) >= 2
        IN  /\ lines[1].kind = "inventories_loaded"
            /\ SectionMarkers(lines)
                   = <<[kind |-> "inventories_loaded"]>>
                     \o [k \in 1..Len(invs) |->
                            [kind |-> "results", label |-> invs[k].label]]
                     \o (IF with_union
                         THEN <<[kind |-> "union_results"]>> ELSE <<>>)
            /\ KindCount(lines, "union_sizes") = (IF with_union THEN 1 ELSE 0)
            /\ KindCount(lines, "per_line_header")
                   = (IF result.per_line THEN Len(invs) ELSE 0)
            /\ \A p \in {k \in 1..Len(lines) : lines[k].kind = "union_results"} :
                  \A q \in (p + 1)..Len(lines) :
                      lines[q].kind \notin {"per_line_header", "per_line_row"}

C9_Witness ==
    /\ result.op = "build_report_text"
    /\ result.union
    /\ result.per_line
    /\ Len(result.inventories) = 2
    /\ KindCount(result.lines, "union_results") = 1
    /\ KindCount(result.lines, "per_line_row") >= 2

(* C10: the per-line totals add up to coverage_report's total_chars and    *)
(* the per-line known counts add up to its known_chars.                    *)
C10_PerLineSumsAgree ==
    result.op = "per_line_breakdown" =>
        LET rep == coverage_report(text, result.inventory, han_only)
        IN  /\ SumTotal(result.rows, Len(result.rows))
                   = rep.total_chars
            /\ SumKnown(result.rows, Len(result.rows))
                   = rep.known_chars

C10_Witness ==
    /\ result.op = "per_line_breakdown"
    /\ Len(result.rows) >= 2
    /\ \E i \in 1..Len(text) : text[i] = 13
    /\ \A i \in 1..Len(text) : text[i] # 10
    /\ SumKnown(result.rows, Len(result.rows)) >= 1
====
